---- MODULE Spec2Model ----
(***************************************************************************)
(* Model of src/model/proofcheck/lean_gym.py: LeanGymConnection, a client  *)
(* of a lean-gym REPL that runs in a detached `screen` session whose       *)
(* output is logged to a temporary file, and the context manager           *)
(* invoke_lean.                                                            *)
(*                                                                         *)
(* Text is modelled as a sequence of one-character strings, so that        *)
(* readline(), the newline escaping and the regular expressions of the     *)
(* decoder are computed character by character as the code computes them.  *)
(***************************************************************************)
EXTENDS Integers, Sequences, FiniteSets, TLC

VARIABLES
    \* ---- one LeanGymConnection and its caller --------------------------
    closed,       \* self.__closed
    queries,      \* self.__queries
    log,          \* content of the temporary log file (written by screen)
    pos,          \* read offset of self.__file in the log
    fileOpen,     \* self.__file is open
    fileExists,   \* the temporary file self.__filename exists
    quitSent,     \* number of `screen -S .. -X quit` requests made
    sent,         \* last cmd list handed to __send_query (<<>> = none yet)
    pc,           \* position of the caller inside the connection's methods
    result,       \* local `result` of collect(); after the return, the value
                  \* returned, until the caller's next step
    frame,        \* position inside invoke_lean: block / finally / exited
    exitVia,      \* how the managed block was left: return / error
    lastOp,       \* name of the last method invoked
    lastRes,      \* its outcome: ok / ValueError / running
    \* ---- the external process (screen logging the REPL output) ---------
    pending,      \* rest of the line screen is in the middle of appending
    nlines,       \* number of lines screen has started to append
    \* ---- history of the caller's view (not program state) --------------
    spans,        \* <<from, to>> log offsets of the text decoded into result[i]
    issued,       \* commands issued since the last completed collect()
    startPos,     \* pos when the current / last collect() was invoked
    startN,       \* commands issued before the current / last collect()
    closeCalled,  \* close() has been invoked at least once
    afterClose,   \* the last method invocation came after a close() invocation
    \* ---- concurrent constructions (class attribute __n_conns) ----------
    n_conns,      \* LeanGymConnection.__n_conns
    cpc,          \* per thread: position inside __init__
    creg,         \* per thread: value loaded by `__n_conns += 1`
    cscreen,      \* per thread: number used in the session name, 0 = not yet
    cfile,        \* per thread: its temporary file exists
    cenv,         \* the machine: screen installed, lean installed, path exists
    \* ---- escaping round trip ------------------------------------------
    rtTactic,     \* a tactic string
    rtWire,       \* the tactic as escaped by run_tac
    rtBack,       \* the decoded echoed field
    rtpc,
    \* ---- the Response Decoder on its own --------------------------------
    decFields,    \* the fields of a response line: key and value text
    decRec,       \* the record __parse_response returned for that line
    decpc,
    \* ---- the command text on its own -----------------------------------
    wireCall,     \* a method call: its name and arguments
    wireOut,      \* the texts handed to `screen -X stuff` by that call
    wirepc

connVars == <<closed, queries, log, pos, fileOpen, fileExists, quitSent, sent,
              pc, result, frame, exitVia, lastOp, lastRes, pending, nlines,
              spans, issued, startPos, startN, closeCalled, afterClose>>
ctorVars == <<n_conns, cpc, creg, cscreen, cfile, cenv>>
rtVars   == <<rtTactic, rtWire, rtBack, rtpc>>
decVars  == <<decFields, decRec, decpc>>
wireVars == <<wireCall, wireOut, wirepc>>
fnVars   == <<rtVars, decVars, wireVars>>
vars     == <<connVars, ctorVars, fnVars>>

----------------------------------------------------------------------------
(* Bounds of the model *)

MaxCmds    == 2   \* at most this many commands outstanding at a time
MaxLines   == 2   \* lines the external process appends to the log
NThreads   == 2   \* threads constructing connections concurrently
MaxTacLen  == 3   \* length of the tactic strings of the round trip
MaxFields  == 3   \* fields of a response line given to the decoder

----------------------------------------------------------------------------
(* Characters *)

NL  == "\n"
BS  == "\\"
DQ  == "\""
SQ  == "'"

Digits    == {"0", "1", "2", "3", "4", "5", "6", "7", "8", "9"}
Letters   == {"a", "b", "c", "g", "k", "l", "n", "s", "u", "x", "y"}
\* the characters of this model's alphabet that [_\w] matches
WordChars == Letters \cup Digits \cup {"_"}

----------------------------------------------------------------------------
(* Generic helpers on sequences *)

Last(s) == s[Len(s)]

\* least index j >= i with s[j] \in cs, or Len(s)+1 when there is none
RECURSIVE FindFrom(_, _, _)
FindFrom(s, i, cs) ==
    IF i > Len(s) THEN Len(s) + 1
    ELSE IF s[i] \in cs THEN i
    ELSE FindFrom(s, i + 1, cs)

\* least index j >= i with s[j] \notin cs, or Len(s)+1 when there is none
RECURSIVE SkipWhile(_, _, _)
SkipWhile(s, i, cs) ==
    IF i > Len(s) THEN Len(s) + 1
    ELSE IF s[i] \notin cs THEN i
    ELSE SkipWhile(s, i + 1, cs)

\* s has the text lit at index i
StartsAt(s, i, lit) ==
    /\ i + Len(lit) - 1 <= Len(s)
    /\ \A k \in 1..Len(lit) : s[i + k - 1] = lit[k]

----------------------------------------------------------------------------
(* The Response Decoder: LeanGymConnection.__parse_response *)

\* the four kinds of values of a decoded record; all have the same fields
ValNone    == [t |-> "null", n |-> 0, s |-> <<>>, l |-> <<>>]
ValInt(n)  == [t |-> "int",  n |-> n, s |-> <<>>, l |-> <<>>]
ValText(s) == [t |-> "text", n |-> 0, s |-> s,    l |-> <<>>]
ValList(l) == [t |-> "list", n |-> 0, s |-> <<>>, l |-> l]

\* value of one decimal digit
DigitVal(c) ==
    CASE c = "0" -> 0 [] c = "1" -> 1 [] c = "2" -> 2 [] c = "3" -> 3
      [] c = "4" -> 4 [] c = "5" -> 5 [] c = "6" -> 6 [] c = "7" -> 7
      [] c = "8" -> 8 [] c = "9" -> 9

\* int(text) for a text of decimal digits
RECURSIVE ToInt(_)
ToInt(s) ==
    IF s = <<>> THEN 0
    ELSE 10 * ToInt(SubSeq(s, 1, Len(s) - 1)) + DigitVal(Last(s))

\* str.replace('\\n', '\n'): backslash followed by n becomes a newline
RECURSIVE Unescape(_)
Unescape(s) ==
    IF s = <<>> THEN <<>>
    ELSE IF Len(s) >= 2 /\ s[1] = BS /\ s[2] = "n"
         THEN <<NL>> \o Unescape(SubSeq(s, 3, Len(s)))
         ELSE <<s[1]>> \o Unescape(Tail(s))

\* re.match(r'"[0-9]+"', value)
IsIntLiteral(v) ==
    /\ Len(v) >= 1 /\ v[1] = DQ
    /\ LET e == SkipWhile(v, 2, Digits)
       IN  e > 2 /\ e <= Len(v) /\ v[e] = DQ

\* re.findall(r'"([^"]*)"', value) from index i on
RECURSIVE Quoted(_, _)
Quoted(v, i) ==
    IF i > Len(v) THEN <<>>
    ELSE IF v[i] = DQ
         THEN LET e == FindFrom(v, i + 1, {DQ})
              IN  IF e <= Len(v)
                  THEN <<SubSeq(v, i + 1, e - 1)>> \o Quoted(v, e + 1)
                  ELSE Quoted(v, i + 1)
         ELSE Quoted(v, i + 1)

\* index of the last character of a match of
\* (null|\[[^\[\]]*\]|"[^"]*") that starts at index j; 0 when none
ValueEnd(s, j) ==
    IF j > Len(s) THEN 0
    ELSE IF StartsAt(s, j, <<"n", "u", "l", "l">>) THEN j + 3
    ELSE IF s[j] = "["
         THEN LET e == FindFrom(s, j + 1, {"[", "]"})
              IN  IF e <= Len(s) /\ s[e] = "]" THEN e ELSE 0
    ELSE IF s[j] = DQ
         THEN LET e == FindFrom(s, j + 1, {DQ})
              IN  IF e <= Len(s) THEN e ELSE 0
    ELSE 0

\* a match of "([_\w]+)":(value) that starts at index i
PairAt(s, i) ==
    IF s[i] # DQ THEN [ok |-> FALSE, key |-> <<>>, value |-> <<>>, end |-> 0]
    ELSE LET k  == SkipWhile(s, i + 1, WordChars)
             ve == IF k > i + 1 /\ StartsAt(s, k, <<DQ, ":">>)
                   THEN ValueEnd(s, k + 2) ELSE 0
         IN  IF ve = 0
             THEN [ok |-> FALSE, key |-> <<>>, value |-> <<>>, end |-> 0]
             ELSE [ok |-> TRUE, key |-> SubSeq(s, i + 1, k - 1),
                   value |-> SubSeq(s, k + 2, ve), end |-> ve]

\* re.findall(pair pattern, responce): the non-overlapping matches, left to right
RECURSIVE Pairs(_, _)
Pairs(s, i) ==
    IF i > Len(s) THEN <<>>
    ELSE LET m == PairAt(s, i)
         IN  IF m.ok THEN <<[key |-> m.key, value |-> m.value]>> \o Pairs(s, m.end + 1)
             ELSE Pairs(s, i + 1)

\* a variant of DecodeValue without the integer branch
DecodeValue_noint(v) ==
    IF v = <<"n", "u", "l", "l">> THEN ValNone
    ELSE IF v[1] = DQ THEN ValText(Unescape(SubSeq(v, 2, Len(v) - 1)))
    ELSE ValList(Quoted(v, 1))

\* the typed value of one matched value text (the if / elif chain)
DecodeValue(v) ==
    IF v = <<"n", "u", "l", "l">> THEN ValNone
    ELSE IF IsIntLiteral(v) THEN ValInt(ToInt(SubSeq(v, 2, Len(v) - 1)))
    ELSE IF v[1] = DQ THEN ValText(Unescape(SubSeq(v, 2, Len(v) - 1)))
    ELSE ValList(Quoted(v, 1))

\* the dict after the first i matches were stored by result[key] = ...,
\* a later match overwriting an earlier one with the same key
RECURSIVE Stored(_, _)
Stored(ps, i) ==
    IF i = 0 THEN <<>>
    ELSE (ps[i].key :> DecodeValue(ps[i].value)) @@ Stored(ps, i - 1)

\* __parse_response: a mapping from key to typed value
parse_response(responce) ==
    CHOOSE r \in {Stored(ps, Len(ps)) : ps \in {Pairs(responce, 1)}} : TRUE

\* tactic.replace('\n', '\\n') of run_tac
RECURSIVE Escape(_)
Escape(s) ==
    IF s = <<>> THEN <<>>
    ELSE IF s[1] = NL THEN <<BS, "n">> \o Escape(Tail(s))
         ELSE <<s[1]>> \o Escape(Tail(s))

----------------------------------------------------------------------------
(* Inputs of the model *)

\* the lines the external process may append to the log:
\* a response, and a banner line that contains a brace further on
LineA     == <<"{", DQ, "a", DQ, ":", DQ, "1", DQ, "}", NL>>
LineNoise == <<"g", "{", "}", NL>>
LogLines  == {LineA, LineNoise}

Names      == {<<"x">>}              \* declaration names
Namespaces == {<<>>, <<<<"n">>>>}    \* lists of open namespaces
SearchIds  == {1}                    \* search ids and tactic state ids
Tactics    == {<<"a", NL, "b">>}

\* str(n) for an integer n >= 0
DigitChar(d) ==
    CASE d = 0 -> "0" [] d = 1 -> "1" [] d = 2 -> "2" [] d = 3 -> "3"
      [] d = 4 -> "4" [] d = 5 -> "5" [] d = 6 -> "6" [] d = 7 -> "7"
      [] d = 8 -> "8" [] d = 9 -> "9"

RECURSIVE Str(_)
Str(n) == IF n < 10 THEN <<DigitChar(n)>>
          ELSE Str(n \div 10) \o <<DigitChar(n % 10)>>

----------------------------------------------------------------------------
(* The Output Log Reader: self.__file.readline() *)

\* offset after the text one readline() returns when the file holds f and the
\* read offset is p: through the next newline, or to the end of the file
\* when no newline has been written yet (p itself when nothing is left)
ReadEnd(f, p) ==
    LET e == FindFrom(f, p + 1, {NL})
    IN  IF e <= Len(f) THEN e ELSE Len(f)

readline(f, p) == SubSeq(f, p + 1, ReadEnd(f, p))

----------------------------------------------------------------------------
(* LeanGymConnection: the command-issuing methods *)

Idle == pc = "idle" /\ frame = "block"

\* the caller drops the list the last collect() returned
Forget ==
    /\ result' = <<>>
    /\ spans' = <<>>
    /\ startPos' = 0
    /\ startN' = 0

\* bookkeeping of a method invocation
Invoked(op) ==
    /\ lastOp' = op
    /\ afterClose' = closeCalled

\* a variant of RaiseClosed that has counted the command before raising
RaiseClosed_counted ==
    /\ lastRes' = "ValueError"
    /\ Forget
    /\ queries' = queries + 1
    /\ UNCHANGED <<closed, log, pos, fileOpen, fileExists, quitSent,
                   sent, pc, frame, exitVia, pending, nlines, issued, closeCalled>>

\* raise ValueError('connection is closed') in a method called by the block
RaiseClosed ==
    /\ lastRes' = "ValueError"
    /\ Forget
    /\ UNCHANGED <<closed, queries, log, pos, fileOpen, fileExists, quitSent,
                   sent, pc, frame, exitVia, pending, nlines, issued, closeCalled>>

\* a variant of Issue that sends the command without counting it
Issue_uncounted(cmd) ==
    /\ queries < MaxCmds
    /\ Forget
    /\ sent' = cmd
    /\ issued' = issued + 1
    /\ lastRes' = "ok"
    /\ UNCHANGED <<closed, queries, log, pos, fileOpen, fileExists, quitSent,
                   pc, frame, exitVia, pending, nlines, closeCalled>>

\* self.__queries += 1; self.__send_query(cmd)
Issue(cmd) ==
    /\ queries < MaxCmds
    /\ Forget
    /\ queries' = queries + 1
    /\ sent' = cmd
    /\ issued' = issued + 1
    /\ lastRes' = "ok"
    /\ UNCHANGED <<closed, log, pos, fileOpen, fileExists, quitSent, pc,
                   frame, exitVia, pending, nlines, closeCalled>>

\* a variant of InitSearchCmd that passes the open namespaces on
InitSearchCmd_ns(name, namespaces) == <<"init_search", <<name>> \o namespaces>>

\* ['init_search', [name, '']]
InitSearchCmd(name, namespaces) == <<"init_search", <<name, <<>>>>>>

\* ['run_tac', [str(search_id), str(tactic_state_id), tactic]] with
\* tactic = tactic.replace('\n', '\\n')
RunTacCmd(search_id, tactic_state_id, tactic) ==
    <<"run_tac", <<Str(search_id), Str(tactic_state_id), Escape(tactic)>>>>

\* ['clear_search', [str(search_id)]]
ClearSearchCmd(search_id) == <<"clear_search", <<Str(search_id)>>>>

\* a variant of init_search without the closed check
init_search_unchecked(name, namespaces) ==
    /\ Idle
    /\ Invoked("init_search")
    /\ Issue(InitSearchCmd(name, namespaces))
    /\ UNCHANGED <<ctorVars, fnVars>>

init_search(name, namespaces) ==
    /\ Idle
    /\ Invoked("init_search")
    /\ IF closed THEN RaiseClosed
       ELSE Issue(InitSearchCmd(name, namespaces))
    /\ UNCHANGED <<ctorVars, fnVars>>

run_tac(search_id, tactic_state_id, tactic) ==
    /\ Idle
    /\ Invoked("run_tac")
    /\ IF closed THEN RaiseClosed
       ELSE Issue(RunTacCmd(search_id, tactic_state_id, tactic))
    /\ UNCHANGED <<ctorVars, fnVars>>

clear_search(search_id) ==
    /\ Idle
    /\ Invoked("clear_search")
    /\ IF closed THEN RaiseClosed
       ELSE Issue(ClearSearchCmd(search_id))
    /\ UNCHANGED <<ctorVars, fnVars>>

----------------------------------------------------------------------------
(* LeanGymConnection.collect *)

\* a variant of LoopCond that is off by one
LoopCond_offbyone == queries >= 0

\* while self.__queries > 0
LoopCond == queries > 0

\* a variant of IsCandidate that takes only decodable lines
IsCandidate_strict(line) == line[1] = "{" /\ Pairs(line, 1) # <<>>

\* line[0] == '{'
IsCandidate(line) == line[1] = "{"

\* a variant of collect that reads the log from its start again
collect_rewind ==
    /\ Idle
    /\ Invoked("collect")
    /\ IF closed THEN RaiseClosed
       ELSE /\ pc' = "collect"
            /\ result' = <<>>
            /\ spans' = <<>>
            /\ pos' = 0
            /\ startPos' = 0
            /\ startN' = issued
            /\ lastRes' = "running"
            /\ UNCHANGED <<closed, queries, log, fileOpen, fileExists,
                           quitSent, sent, frame, exitVia, pending, nlines,
                           issued, closeCalled>>
    /\ UNCHANGED <<ctorVars, fnVars>>

\* the call: the closed check and result = []
collect ==
    /\ Idle
    /\ Invoked("collect")
    /\ IF closed THEN RaiseClosed
       ELSE /\ pc' = "collect"
            /\ result' = <<>>
            /\ spans' = <<>>
            /\ startPos' = pos
            /\ startN' = issued
            /\ lastRes' = "running"
            /\ UNCHANGED <<closed, queries, log, pos, fileOpen, fileExists,
                           quitSent, sent, frame, exitVia, pending, nlines,
                           issued, closeCalled>>
    /\ UNCHANGED <<ctorVars, fnVars>>

\* a variant of collect_loop that forgets self.__queries -= 1
collect_loop_nodec ==
    /\ pc = "collect"
    /\ LoopCond
    /\ \E line \in {readline(log, pos)} :
       \E e \in {ReadEnd(log, pos)} :
           IF line = <<>>
           THEN UNCHANGED <<pos, result, spans>>
           ELSE IF IsCandidate(line)
           THEN /\ result' = Append(result, parse_response(line))
                /\ pos' = e
                /\ spans' = Append(spans, <<pos, e>>)
           ELSE /\ pos' = e
                /\ UNCHANGED <<result, spans>>
    /\ UNCHANGED <<closed, queries, log, fileOpen, fileExists, quitSent, sent,
                   pc, frame, exitVia, lastOp, lastRes, pending, nlines,
                   issued, startPos, startN, closeCalled, afterClose>>
    /\ UNCHANGED <<ctorVars, fnVars>>

\* one iteration of the polling loop
collect_loop ==
    /\ pc = "collect"
    /\ LoopCond
    /\ \E line \in {readline(log, pos)} :
       \E e \in {ReadEnd(log, pos)} :
           IF line = <<>>
           THEN UNCHANGED <<pos, result, queries, spans>>
           ELSE IF IsCandidate(line)
           THEN /\ result' = Append(result, parse_response(line))
                /\ queries' = queries - 1
                /\ pos' = e
                /\ spans' = Append(spans, <<pos, e>>)
           ELSE /\ pos' = e
                /\ UNCHANGED <<result, queries, spans>>
    /\ UNCHANGED <<closed, log, fileOpen, fileExists, quitSent, sent, pc,
                   frame, exitVia, lastOp, lastRes, pending, nlines, issued,
                   startPos, startN, closeCalled, afterClose>>
    /\ UNCHANGED <<ctorVars, fnVars>>

\* a variant of collect_return that gives up while commands are outstanding
collect_return_early ==
    /\ pc = "collect"
    /\ pc' = "idle"
    /\ lastRes' = "ok"
    /\ issued' = 0
    /\ UNCHANGED <<closed, queries, log, pos, fileOpen, fileExists, quitSent,
                   sent, result, frame, exitVia, lastOp, pending, nlines,
                   spans, startPos, startN, closeCalled, afterClose>>
    /\ UNCHANGED <<ctorVars, fnVars>>

\* return result
collect_return ==
    /\ pc = "collect"
    /\ ~LoopCond
    /\ pc' = "idle"
    /\ lastRes' = "ok"
    /\ issued' = 0
    /\ UNCHANGED <<closed, queries, log, pos, fileOpen, fileExists, quitSent,
                   sent, result, frame, exitVia, lastOp, pending, nlines,
                   spans, startPos, startN, closeCalled, afterClose>>
    /\ UNCHANGED <<ctorVars, fnVars>>

----------------------------------------------------------------------------
(* LeanGymConnection.close, called by the block or by invoke_lean's finally *)

\* where the caller of close() is once close() has returned or raised
AfterClose(f) == IF f = "finally" THEN "exited" ELSE f

\* the closed check and self.__closed = True
close ==
    /\ pc = "idle"
    /\ frame \in {"block", "finally"}
    /\ Invoked("close")
    /\ Forget
    /\ closeCalled' = TRUE
    /\ IF closed
       THEN /\ lastRes' = "ValueError"
            /\ frame' = AfterClose(frame)
            /\ UNCHANGED <<closed, pc>>
       ELSE /\ closed' = TRUE
            /\ pc' = "close_exit"
            /\ lastRes' = "running"
            /\ UNCHANGED frame
    /\ UNCHANGED <<queries, log, pos, fileOpen, fileExists, quitSent, sent,
                   exitVia, pending, nlines, issued>>
    /\ UNCHANGED <<ctorVars, fnVars>>

\* a variant of close_exit that does not ask screen to quit
close_exit_noquit ==
    /\ pc = "close_exit"
    /\ pc' = "close_file"
    /\ UNCHANGED <<closed, queries, log, pos, fileOpen, fileExists, quitSent,
                   sent, result, frame, exitVia, lastOp, lastRes, pending,
                   nlines, spans, issued, startPos, startN, closeCalled,
                   afterClose>>
    /\ UNCHANGED <<ctorVars, fnVars>>

\* subprocess.run(self.__EXIT)
close_exit ==
    /\ pc = "close_exit"
    /\ quitSent' = quitSent + 1
    /\ pc' = "close_file"
    /\ UNCHANGED <<closed, queries, log, pos, fileOpen, fileExists, sent,
                   result, frame, exitVia, lastOp, lastRes, pending, nlines,
                   spans, issued, startPos, startN, closeCalled, afterClose>>
    /\ UNCHANGED <<ctorVars, fnVars>>

\* self.__file.close()
close_file ==
    /\ pc = "close_file"
    /\ fileOpen' = FALSE
    /\ pc' = "close_remove"
    /\ UNCHANGED <<closed, queries, log, pos, fileExists, quitSent, sent,
                   result, frame, exitVia, lastOp, lastRes, pending, nlines,
                   spans, issued, startPos, startN, closeCalled, afterClose>>
    /\ UNCHANGED <<ctorVars, fnVars>>

\* os.remove(self.__filename), and the return
close_remove ==
    /\ pc = "close_remove"
    /\ fileExists' = FALSE
    /\ pc' = "idle"
    /\ lastRes' = "ok"
    /\ frame' = AfterClose(frame)
    /\ UNCHANGED <<closed, queries, log, pos, fileOpen, quitSent, sent,
                   result, exitVia, lastOp, pending, nlines, spans, issued,
                   startPos, startN, closeCalled, afterClose>>
    /\ UNCHANGED <<ctorVars, fnVars>>

----------------------------------------------------------------------------
(* invoke_lean: the managed block runs between the yield and the finally.  *)
(* A caller that uses the class directly is a block that has not exited.   *)

\* a variant of BlockExit without try / finally: an error skips close()
BlockExit_nofinally(kind) == IF kind = "error" THEN "exited" ELSE "finally"

\* where control goes when the block is left by `kind` (return / error):
\* the finally clause, on both paths
BlockExit(kind) == "finally"

block_return ==
    /\ Idle
    /\ Forget
    /\ frame' = BlockExit("return")
    /\ exitVia' = "return"
    /\ UNCHANGED <<closed, queries, log, pos, fileOpen, fileExists, quitSent,
                   sent, pc, lastOp, lastRes, pending, nlines, issued, closeCalled, afterClose>>
    /\ UNCHANGED <<ctorVars, fnVars>>

block_raise ==
    /\ Idle
    /\ Forget
    /\ frame' = BlockExit("error")
    /\ exitVia' = "error"
    /\ UNCHANGED <<closed, queries, log, pos, fileOpen, fileExists, quitSent,
                   sent, pc, lastOp, lastRes, pending, nlines, issued, closeCalled, afterClose>>
    /\ UNCHANGED <<ctorVars, fnVars>>

----------------------------------------------------------------------------
(* The external process: screen appends the REPL's output to the log file, *)
(* in pieces that need not end at a line boundary.                         *)

screen_start_line ==
    /\ fileExists
    /\ pending = <<>>
    /\ nlines < MaxLines
    /\ \E l \in LogLines : \E k \in 1..Len(l) :
          /\ log' = log \o SubSeq(l, 1, k)
          /\ pending' = SubSeq(l, k + 1, Len(l))
    /\ nlines' = nlines + 1
    /\ UNCHANGED <<closed, queries, pos, fileOpen, fileExists, quitSent, sent,
                   pc, result, frame, exitVia, lastOp, lastRes, spans, issued,
                   startPos, startN, closeCalled, afterClose>>
    /\ UNCHANGED <<ctorVars, fnVars>>

screen_continue_line ==
    /\ fileExists
    /\ pending # <<>>
    /\ \E k \in 1..Len(pending) :
          /\ log' = log \o SubSeq(pending, 1, k)
          /\ pending' = SubSeq(pending, k + 1, Len(pending))
    /\ UNCHANGED <<closed, queries, pos, fileOpen, fileExists, quitSent, sent,
                   pc, result, frame, exitVia, lastOp, lastRes, nlines, spans,
                   issued, startPos, startN, closeCalled, afterClose>>
    /\ UNCHANGED <<ctorVars, fnVars>>

----------------------------------------------------------------------------
(* Specification of one connection: the state after __init__ has returned  *)
(* and invoke_lean has yielded the connection to the block.                *)

InitCtorIdle ==
    /\ n_conns = 1
    /\ cpc = <<>>
    /\ creg = <<>>
    /\ cscreen = <<>>
    /\ cfile = <<>>
    /\ cenv = [screen |-> TRUE, lean |-> TRUE, path |-> TRUE]

InitRtIdle ==
    /\ rtTactic = <<>>
    /\ rtWire = <<>>
    /\ rtBack = ValNone
    /\ rtpc = "off"

InitDecIdle ==
    /\ decFields = <<>>
    /\ decRec = <<>>
    /\ decpc = "off"

InitWireIdle ==
    /\ wireCall = <<>>
    /\ wireOut = <<>>
    /\ wirepc = "off"

InitFnIdle == InitRtIdle /\ InitDecIdle /\ InitWireIdle

InitConn ==
    /\ closed = FALSE
    /\ queries = 0
    /\ log = <<>>
    /\ pos = 0
    /\ fileOpen = TRUE
    /\ fileExists = TRUE
    /\ quitSent = 0
    /\ sent = <<>>
    /\ pc = "idle"
    /\ result = <<>>
    /\ frame = "block"
    /\ exitVia = "none"
    /\ lastOp = "none"
    /\ lastRes = "none"
    /\ pending = <<>>
    /\ nlines = 0
    /\ spans = <<>>
    /\ issued = 0
    /\ startPos = 0
    /\ startN = 0
    /\ closeCalled = FALSE
    /\ afterClose = FALSE

Init == InitConn /\ InitCtorIdle /\ InitFnIdle

Next ==
    \/ \E name \in Names : \E namespaces \in Namespaces :
          init_search(name, namespaces)
    \/ \E sid \in SearchIds : \E tsid \in SearchIds : \E tactic \in Tactics :
          run_tac(sid, tsid, tactic)
    \/ \E sid \in SearchIds : clear_search(sid)
    \/ collect
    \/ collect_loop
    \/ collect_return
    \/ close
    \/ close_exit
    \/ close_file
    \/ close_remove
    \/ block_return
    \/ block_raise
    \/ screen_start_line
    \/ screen_continue_line

Spec == Init /\ [][Next]_vars

----------------------------------------------------------------------------
(* Concurrent constructions: NThreads threads each run __init__.  The      *)
(* class attribute __n_conns is shared; `+= 1` is a load and a store, and  *)
(* the session name is formatted from a second read of the attribute.      *)

Threads == 1..NThreads

\* LeanGymConnection.__n_conns += 1, the load
init_load(t) ==
    /\ cpc[t] = "load"
    /\ creg' = [creg EXCEPT ![t] = n_conns]
    /\ cpc' = [cpc EXCEPT ![t] = "store"]
    /\ UNCHANGED <<n_conns, cscreen, cfile, cenv>>
    /\ UNCHANGED <<connVars, fnVars>>

\* LeanGymConnection.__n_conns += 1, the store
init_store(t) ==
    /\ cpc[t] = "store"
    /\ n_conns' = creg[t] + 1
    /\ cpc' = [cpc EXCEPT ![t] = "tmp"]
    /\ UNCHANGED <<creg, cscreen, cfile, cenv>>
    /\ UNCHANGED <<connVars, fnVars>>

\* tempfile.NamedTemporaryFile(delete=False) and open(self.__filename, 'r')
init_tmp(t) ==
    /\ cpc[t] = "tmp"
    /\ cfile' = [cfile EXCEPT ![t] = TRUE]
    /\ cpc' = [cpc EXCEPT ![t] = "name"]
    /\ UNCHANGED <<n_conns, creg, cscreen, cenv>>
    /\ UNCHANGED <<connVars, fnVars>>

\* screen = f'lean_repl{LeanGymConnection.__n_conns}'
init_name(t) ==
    /\ cpc[t] = "name"
    /\ cscreen' = [cscreen EXCEPT ![t] = n_conns]
    /\ cpc' = [cpc EXCEPT ![t] = "start"]
    /\ UNCHANGED <<n_conns, creg, cfile, cenv>>
    /\ UNCHANGED <<connVars, fnVars>>

\* the child process cannot be started: the executable `screen` or the
\* working directory is missing, and subprocess.run raises FileNotFoundError
StartFails == ~cenv.screen \/ ~cenv.path

\* a variant of init_start whose except clause swallows the error
init_start_swallow(t) ==
    /\ cpc[t] = "start"
    /\ cpc' = [cpc EXCEPT ![t] = "queries"]
    /\ UNCHANGED <<n_conns, creg, cscreen, cfile, cenv>>
    /\ UNCHANGED <<connVars, fnVars>>

\* subprocess.run(self.__START, cwd=path), and the except clause that
\* raises OSError; whether `lean` exists is screen's business, not checked
init_start(t) ==
    /\ cpc[t] = "start"
    /\ cpc' = [cpc EXCEPT ![t] = IF StartFails THEN "OSError" ELSE "queries"]
    /\ UNCHANGED <<n_conns, creg, cscreen, cfile, cenv>>
    /\ UNCHANGED <<connVars, fnVars>>

\* self.__queries = 0, and the return
init_queries(t) ==
    /\ cpc[t] = "queries"
    /\ cpc' = [cpc EXCEPT ![t] = "done"]
    /\ UNCHANGED <<n_conns, creg, cscreen, cfile, cenv>>
    /\ UNCHANGED <<connVars, fnVars>>

InitCtor ==
    /\ n_conns = 0
    /\ cpc = [t \in Threads |-> "load"]
    /\ creg = [t \in Threads |-> 0]
    /\ cscreen = [t \in Threads |-> 0]
    /\ cfile = [t \in Threads |-> FALSE]
    /\ cenv \in [screen : BOOLEAN, lean : BOOLEAN, path : BOOLEAN]
    /\ InitConn
    /\ InitFnIdle

NextCtor ==
    \/ \E t \in Threads : init_load(t)
    \/ \E t \in Threads : init_store(t)
    \/ \E t \in Threads : init_tmp(t)
    \/ \E t \in Threads : init_name(t)
    \/ \E t \in Threads : init_start(t)
    \/ \E t \in Threads : init_queries(t)

SpecCtor == InitCtor /\ [][NextCtor]_vars

----------------------------------------------------------------------------
(* The escaping round trip: a tactic is escaped as run_tac escapes it, the *)
(* REPL echoes it as the text field of a response line, and the line is    *)
(* decoded by __parse_response.                                            *)

\* characters of the tactic strings: newline, backslash and two letters
RtChars == {NL, BS, "n", "a"}

\* all texts over cs of length at most n
RECURSIVE TextsUpTo(_, _)
TextsUpTo(cs, n) ==
    IF n = 0 THEN {<<>>}
    ELSE LET shorter == TextsUpTo(cs, n - 1)
         IN  shorter \cup {Append(s, c) : s \in shorter, c \in cs}

RtKey == <<"k">>

\* the response line that echoes the text w in the field k
EchoLine(w) == <<"{", DQ>> \o RtKey \o <<DQ, ":", DQ>> \o w \o <<DQ, "}", NL>>

rt_escape ==
    /\ rtpc = "escape"
    /\ rtWire' = Escape(rtTactic)
    /\ rtpc' = "decode"
    /\ UNCHANGED <<rtTactic, rtBack>>
    /\ UNCHANGED <<connVars, ctorVars, decVars, wireVars>>

rt_decode ==
    /\ rtpc = "decode"
    /\ LET rec == parse_response(EchoLine(rtWire))
       IN  rtBack' = IF RtKey \in DOMAIN rec THEN rec[RtKey] ELSE ValNone
    /\ rtpc' = "done"
    /\ UNCHANGED <<rtTactic, rtWire>>
    /\ UNCHANGED <<connVars, ctorVars, decVars, wireVars>>

InitRT ==
    /\ rtTactic \in TextsUpTo(RtChars, MaxTacLen)
    /\ rtWire = <<>>
    /\ rtBack = ValNone
    /\ rtpc = "escape"
    /\ InitConn
    /\ InitCtorIdle
    /\ InitDecIdle
    /\ InitWireIdle

NextRT == rt_escape \/ rt_decode

SpecRT == InitRT /\ [][NextRT]_vars

----------------------------------------------------------------------------
(* Lines of the log, as the external process wrote them *)

\* the complete lines of f after offset p, in order
RECURSIVE LinesFrom(_, _)
LinesFrom(f, p) ==
    LET e == FindFrom(f, p + 1, {NL})
    IN  IF e > Len(f) THEN <<>>
        ELSE <<SubSeq(f, p + 1, e)>> \o LinesFrom(f, e)

\* the complete candidate lines of f after offset p, in order
CandidatesFrom(f, p) == SelectSeq(LinesFrom(f, p), IsCandidate)

\* offset p is the start of a line of f
IsLineStart(f, p) == p = 0 \/ f[p] = NL

\* offset at which the line of f that holds the character after offset p starts
RECURSIVE LineStart(_, _)
LineStart(f, p) == IF IsLineStart(f, p) THEN p ELSE LineStart(f, p - 1)

\* collect() has returned and the caller still holds the list it returned
CollectReturned == lastOp = "collect" /\ lastRes = "ok" /\ Idle

\* some close() is between its closed check and its return
InClose == pc \in {"close_exit", "close_file", "close_remove"}

----------------------------------------------------------------------------
(* The claims *)

\* C1: after n commands issued with no collect() in between, collect()
\* returns exactly n records, which are the decodings of the first n
\* not-yet-read candidate lines of the log, in log order.
C1_CollectReturnsFirstCandidates ==
    CollectReturned =>
        LET cands == CandidatesFrom(log, startPos)
        IN  /\ Len(result) = startN
            /\ Len(cands) >= startN
            /\ \A i \in 1..startN : result[i] = parse_response(cands[i])

\* C2: every record collect() decodes comes from exactly one complete log
\* line: the decoded text starts at a line start and ends with the newline.
C2_RecordsFromCompleteLines ==
    \A i \in 1..Len(spans) :
        /\ IsLineStart(log, spans[i][1])
        /\ log[spans[i][2]] = NL

\* C3: once close() has been invoked the connection stays closed and every
\* later invocation of any method fails with the invalid-state error.
C3_ClosedIsFinal ==
    /\ closeCalled => closed
    /\ afterClose => lastRes = "ValueError"

C3_Witness ==
    /\ afterClose
    /\ lastOp = "close"
    /\ lastRes = "ValueError"
    /\ frame = "block"

\* C4: a log line whose first character is not '{' never makes collect()
\* decode a record or decrement the outstanding-count: every decoded text
\* lies in a log line that starts with '{'.
C4_NoiseLinesIgnored ==
    \A i \in 1..Len(spans) : log[LineStart(log, spans[i][1]) + 1] = "{"

\* C5: the outstanding-count is the number of commands issued since the
\* last completed collect(), less one for each candidate line the running
\* collect() has consumed.
C5_CountMatchesIssued ==
    /\ pc # "collect" => queries = issued
    /\ pc = "collect" => queries = issued - Len(result)

C5_Witness ==
    /\ pc = "collect"
    /\ issued = 2
    /\ Len(result) = 1
    /\ queries = 1

\* C6: the outstanding-count is never negative.
C6_CountNonNegative == queries >= 0

\* collect() has brought the count down to 0 with text left unread in the log
C6_Witness ==
    /\ pc = "collect"
    /\ queries = 0
    /\ Len(result) > 0
    /\ pos < Len(log)

\* C7: once invoke_lean's managed block has exited, by return or by error,
\* the connection is CLOSED and its temporary log file does not exist.
C7_ScopedExitReleases == frame = "exited" => (closed /\ ~fileExists)

\* the block issued a command, raised, and the finally clause closed
C7_Witness ==
    /\ frame = "exited"
    /\ exitVia = "error"
    /\ sent # <<>>
    /\ lastOp = "close"
    /\ lastRes = "ok"

\* C8: connections constructed concurrently get pairwise distinct session
\* names.
C8_DistinctSessionNames ==
    \A t \in Threads : \A u \in Threads :
        (t # u /\ cscreen[t] # 0 /\ cscreen[u] # 0) => cscreen[t] # cscreen[u]

\* C9: escaping a tactic as run_tac does and decoding the echoed text field
\* gives back the original tactic string.
C9_RoundTrip == rtpc = "done" => rtBack = ValText(rtTactic)

\* C10: close() sets CLOSED, then requests termination, then closes the
\* reader, then deletes the file; after close() all four have happened.
C10_CloseOrder ==
    /\ quitSent >= 1 => closed
    /\ ~fileOpen => quitSent >= 1
    /\ ~fileExists => ~fileOpen
    /\ (closed /\ ~InClose) => (quitSent = 1 /\ ~fileOpen /\ ~fileExists)

\* close() called by the block on an OPEN connection has returned
C10_Witness ==
    /\ lastOp = "close"
    /\ lastRes = "ok"
    /\ frame = "block"
    /\ ~afterClose
    /\ ~fileExists

\* the external process appends nothing more
ProcessSilent ==
    /\ pending = <<>>
    /\ nlines = MaxLines

----------------------------------------------------------------------------
(* The same connection when the external process appends one complete line *)
(* at a time, among them a second response and a malformed response.       *)

LineB    == <<"{", DQ, "b", DQ, ":", "n", "u", "l", "l", "}", NL>>
LineBad  == <<"{", "?", "}", NL>>
LogLinesW == {LineA, LineB, LineBad, LineNoise}

screen_append_line ==
    /\ fileExists
    /\ pending = <<>>
    /\ nlines < MaxLines
    /\ \E l \in LogLinesW : log' = log \o l
    /\ nlines' = nlines + 1
    /\ UNCHANGED <<closed, queries, pos, fileOpen, fileExists, quitSent, sent,
                   pc, result, frame, exitVia, lastOp, lastRes, pending,
                   spans, issued, startPos, startN, closeCalled, afterClose>>
    /\ UNCHANGED <<ctorVars, fnVars>>

NextLines ==
    \/ \E name \in Names : \E namespaces \in Namespaces :
          init_search(name, namespaces)
    \/ \E sid \in SearchIds : \E tsid \in SearchIds : \E tactic \in Tactics :
          run_tac(sid, tsid, tactic)
    \/ \E sid \in SearchIds : clear_search(sid)
    \/ collect
    \/ collect_loop
    \/ collect_return
    \/ close
    \/ close_exit
    \/ close_file
    \/ close_remove
    \/ block_return
    \/ block_raise
    \/ screen_append_line

SpecLines == Init /\ [][NextLines]_vars

(* The connection fed complete lines, with the scheduling of the caller's  *)
(* thread: the polling loop of collect() is a busy loop of a running       *)
(* thread, so an iteration that can read text, and the return, are         *)
(* eventually taken.  Nothing is assumed of the external process.          *)

SpecLinesFair ==
    /\ Init
    /\ [][NextLines]_vars
    /\ WF_vars(collect_loop)
    /\ WF_vars(collect_return)

\* the log holds, after the read offset, at least as many complete candidate
\* lines as there are outstanding commands
EnoughCandidates ==
    /\ pc = "collect"
    /\ Len(CandidatesFrom(log, pos)) >= queries

\* C11: a collect() for which the external process has appended enough
\* complete candidate lines eventually returns, with outstanding-count 0.
C11_CollectTerminates ==
    EnoughCandidates ~> (CollectReturned /\ queries = 0)

\* collect() returned two records, each read from a complete line
C11_Witness ==
    /\ CollectReturned
    /\ queries = 0
    /\ startN = 2
    /\ Len(result) = 2
    /\ \A i \in 1..Len(spans) :
          IsLineStart(log, spans[i][1]) /\ log[spans[i][2]] = NL

\* the text the next readline() of the polling loop returns
NextText == readline(log, pos)

\* the loop is about to read a text that starts with '{' and holds no pair
ReadsMalformed ==
    /\ pc = "collect"
    /\ queries > 0
    /\ pos < Len(log)
    /\ NextText[1] = "{"
    /\ Pairs(NextText, 1) = <<>>

\* C13: reading a candidate line that does not match the pair grammar
\* appends a record with no fields, fails nothing, and takes exactly one
\* off the outstanding-count.
C13_MalformedTakesSlot ==
    [][ (ReadsMalformed /\ log' = log) =>
            /\ pc' = "collect"
            /\ lastRes' = "running"
            /\ Len(result') = Len(result) + 1
            /\ SubSeq(result', 1, Len(result)) = result
            /\ DOMAIN Last(result') = {}
            /\ queries' = queries - 1
            /\ pos' = ReadEnd(log, pos) ]_vars

\* collect() returned a record with no fields for the malformed line
C13_Witness ==
    /\ CollectReturned
    /\ \E i \in 1..Len(result) :
          /\ DOMAIN result[i] = {}
          /\ SubSeq(log, spans[i][1] + 1, spans[i][2]) = LineBad

----------------------------------------------------------------------------
(* The Response Decoder on its own: __parse_response applied to lines      *)
(* built from up to MaxFields fields, each a key and a value text.         *)

\* value texts of each lexical shape, with the value the decoder is to give
DecCases == <<
    [text |-> <<"n", "u", "l", "l">>,                 val |-> ValNone],
    [text |-> <<DQ, "3", DQ>>,                        val |-> ValInt(3)],
    [text |-> <<DQ, "x", DQ>>,                        val |-> ValText(<<"x">>)],
    [text |-> <<DQ, DQ>>,                             val |-> ValText(<<>>)],
    [text |-> <<DQ, "3", "x", DQ>>,                   val |-> ValText(<<"3", "x">>)],
    [text |-> <<DQ, "a", BS, "n", "b", DQ>>,          val |-> ValText(<<"a", NL, "b">>)],
    [text |-> <<"[", DQ, "x", DQ, ",", DQ, "y", DQ, "]">>,
                                   val |-> ValList(<< <<"x">>, <<"y">> >>)],
    [text |-> <<"[", DQ, "a", BS, "n", "b", DQ, "]">>,
                                   val |-> ValList(<< <<"a", BS, "n", "b">> >>)] >>

DecKeys   == {<<"a">>, <<"b">>, <<"c">>}
DecField  == [key : DecKeys, c : 1..Len(DecCases)]
FieldSeqs == UNION {[1..n -> DecField] : n \in 0..MaxFields}

\* "key":value
FieldText(f) == <<DQ>> \o f.key \o <<DQ, ":">> \o DecCases[f.c].text

\* the fields separated by commas
RECURSIVE JoinFields(_)
JoinFields(fs) ==
    IF fs = <<>> THEN <<>>
    ELSE IF Len(fs) = 1 THEN FieldText(fs[1])
    ELSE FieldText(fs[1]) \o <<",">> \o JoinFields(Tail(fs))

\* the response line {"key":value,...}
DecLine(fs) == <<"{">> \o JoinFields(fs) \o <<"}", NL>>

dec_parse ==
    /\ decpc = "parse"
    /\ decRec' = parse_response(DecLine(decFields))
    /\ decpc' = "done"
    /\ UNCHANGED decFields
    /\ UNCHANGED <<connVars, ctorVars, rtVars, wireVars>>

InitDec ==
    /\ decFields \in FieldSeqs
    /\ decRec = <<>>
    /\ decpc = "parse"
    /\ InitConn
    /\ InitCtorIdle
    /\ InitRtIdle
    /\ InitWireIdle

NextDec == dec_parse

SpecDec == InitDec /\ [][NextDec]_vars

\* index of the last field of fs with key k
LastWith(fs, k) ==
    CHOOSE i \in 1..Len(fs) :
        fs[i].key = k /\ \A j \in (i + 1)..Len(fs) : fs[j].key # k

\* the record the fields stand for, the last occurrence of a key winning
ExpectedRec(fs) ==
    [k \in {fs[i].key : i \in 1..Len(fs)} |-> DecCases[fs[LastWith(fs, k)].c].val]

\* the fields of the line {"a":null,"b":"3","c":["x","y"]}
ExampleFields ==
    << [key |-> <<"a">>, c |-> 1], [key |-> <<"b">>, c |-> 2],
       [key |-> <<"c">>, c |-> 7] >>

\* C14: the decoder gives every field the value of its lexical shape: null
\* the absent value, quoted digits an integer, another quoted string the
\* text with backslash-n restored, a bracketed list its quoted strings as
\* they are; of two fields with one key the later one is kept.
C14_DecoderTypesFields ==
    decpc = "done" =>
        /\ DOMAIN decRec = {decFields[i].key : i \in 1..Len(decFields)}
        /\ \A k \in DOMAIN decRec : decRec[k] = ExpectedRec(decFields)[k]

\* the example line was decoded: a absent, b the integer 3, c the list x, y
C14_Witness ==
    /\ decpc = "done"
    /\ decFields = ExampleFields
    /\ decRec[<<"a">>] = ValNone
    /\ decRec[<<"b">>] = ValInt(3)
    /\ decRec[<<"c">>] = ValList(<< <<"x">>, <<"y">> >>)

----------------------------------------------------------------------------
(* The command text on its own: the text __send_query hands to             *)
(* `screen -X stuff` for one call of init_search, run_tac or clear_search. *)

\* the characters of a command name
OpChars(op) ==
    CASE op = "init_search"  -> <<"i", "n", "i", "t", "_", "s", "e", "a", "r", "c", "h">>
      [] op = "run_tac"      -> <<"r", "u", "n", "_", "t", "a", "c">>
      [] op = "clear_search" -> <<"c", "l", "e", "a", "r", "_", "s", "e", "a", "r", "c", "h">>

\* the set of characters of the text s
CharsOf(s) == {s[i] : i \in 1..Len(s)}

\* repr() of a str: the quote Python chooses
ReprQuote(s) == IF SQ \in CharsOf(s) /\ DQ \notin CharsOf(s) THEN DQ ELSE SQ

\* repr() of a str: the characters between the quotes
RECURSIVE ReprBody(_, _)
ReprBody(s, q) ==
    IF s = <<>> THEN <<>>
    ELSE LET c == s[1]
             e == IF c = BS THEN <<BS, BS>>
                  ELSE IF c = NL THEN <<BS, "n">>
                  ELSE IF c = q THEN <<BS, q>>
                  ELSE <<c>>
         IN  e \o ReprBody(Tail(s), q)

PyRepr(s) == <<ReprQuote(s)>> \o ReprBody(s, ReprQuote(s)) \o <<ReprQuote(s)>>

\* the reprs of the texts of a list, separated by comma and space
RECURSIVE ReprItems(_)
ReprItems(l) ==
    IF l = <<>> THEN <<>>
    ELSE IF Len(l) = 1 THEN PyRepr(l[1])
    ELSE PyRepr(l[1]) \o <<",", " ">> \o ReprItems(Tail(l))

\* str(cmd) for cmd = [name, [arg, ...]]
PyStr(cmd) ==
    <<"[">> \o PyRepr(OpChars(cmd[1])) \o <<",", " ", "[">>
            \o ReprItems(cmd[2]) \o <<"]", "]">>

\* str.replace("'", '"')
RECURSIVE ReplaceQuotes(_)
ReplaceQuotes(s) ==
    IF s = <<>> THEN <<>>
    ELSE <<IF s[1] = SQ THEN DQ ELSE s[1]>> \o ReplaceQuotes(Tail(s))

\* a variant of WireText that leaves the line unterminated
WireText_nonl(cmd) == ReplaceQuotes(PyStr(cmd))

\* __send_query: the last argument of the `screen -X stuff` invocation
WireText(cmd) == ReplaceQuotes(PyStr(cmd)) \o <<NL>>

\* characters of the tactic texts: newline, backslash, both quotes, a letter
WireChars == {NL, BS, SQ, DQ, "a"}

\* the calls: one record shape for the three methods
WireCalls ==
    {[op |-> "init_search", name |-> n, namespaces |-> ns, ids |-> <<>>,
      tactic |-> <<>>] : n \in Names, ns \in Namespaces}
    \cup
    {[op |-> "run_tac", name |-> <<>>, namespaces |-> <<>>, ids |-> <<i, j>>,
      tactic |-> t] : i \in SearchIds, j \in SearchIds,
                     t \in TextsUpTo(WireChars, MaxTacLen)}
    \cup
    {[op |-> "clear_search", name |-> <<>>, namespaces |-> <<>>, ids |-> <<i>>,
      tactic |-> <<>>] : i \in SearchIds}

\* the cmd list the called method builds
CmdOf(c) ==
    CASE c.op = "init_search"  -> InitSearchCmd(c.name, c.namespaces)
      [] c.op = "run_tac"      -> RunTacCmd(c.ids[1], c.ids[2], c.tactic)
      [] c.op = "clear_search" -> ClearSearchCmd(c.ids[1])

\* the method's one call of __send_query, on an open connection
wire_send ==
    /\ wirepc = "call"
    /\ wireOut' = Append(wireOut, WireText(CmdOf(wireCall)))
    /\ wirepc' = "sent"
    /\ UNCHANGED wireCall
    /\ UNCHANGED <<connVars, ctorVars, rtVars, decVars>>

InitWire ==
    /\ wireCall \in WireCalls
    /\ wireOut = <<>>
    /\ wirepc = "call"
    /\ InitConn
    /\ InitCtorIdle
    /\ InitRtIdle
    /\ InitDecIdle

NextWire == wire_send

SpecWire == InitWire /\ [][NextWire]_vars

\* the text t has the shape ["op", [ ... ]] followed by a newline
HasCommandShape(t, op) ==
    LET head == <<"[", DQ>> \o OpChars(op) \o <<DQ, ",", " ", "[">>
    IN  /\ Len(t) >= Len(head) + 3
        /\ StartsAt(t, 1, head)
        /\ StartsAt(t, Len(t) - 2, <<"]", "]", NL>>)

\* C16: a successful call hands exactly one text to the session; it has the
\* shape [commandName, [args...]] and its only newline is its last character.
C16_OneLinePerCommand ==
    wirepc = "sent" =>
        /\ Len(wireOut) = 1
        /\ HasCommandShape(wireOut[1], wireCall.op)
        /\ \A i \in 1..Len(wireOut[1]) :
              wireOut[1][i] = NL <=> i = Len(wireOut[1])

\* a run_tac whose tactic holds a newline was sent
C16_Witness ==
    /\ wirepc = "sent"
    /\ wireCall.op = "run_tac"
    /\ NL \in CharsOf(wireCall.tactic)
    /\ Len(wireOut) = 1

\* the text of init_search for the name n: ["init_search", ["n", ""]]
InitSearchText(n) ==
    <<"[", DQ>> \o OpChars("init_search") \o <<DQ, ",", " ", "[", DQ>> \o n
        \o <<DQ, ",", " ", DQ, DQ, "]", "]", NL>>

\* C17: init_search sends the declaration name and one empty placeholder,
\* the same text whatever namespaces the caller gave.
C17_NamespacesNotSent ==
    (wirepc = "sent" /\ wireCall.op = "init_search") =>
        wireOut = <<InitSearchText(wireCall.name)>>

\* an init_search with a non-empty list of namespaces was sent
C17_Witness ==
    /\ wirepc = "sent"
    /\ wireCall.op = "init_search"
    /\ wireCall.namespaces # <<>>
    /\ Len(wireOut) = 1

\* the candidate lines among the first p characters of the log
Before(p) == CandidatesFrom(SubSeq(log, 1, p), 0)

\* the records of a sequence of lines
Decoded(ls) == [i \in 1..Len(ls) |-> parse_response(ls[i])]

\* C18: with the log appended to one complete line at a time, the records
\* returned by the collect() calls of a connection are, in order, the
\* decodings of the first candidate lines of the log.  Each collect() reads
\* on from where the one before stopped, so what it has gathered, put after
\* the decodings of the candidate lines before its start, is the decoding of
\* the candidate lines before the read offset; the offset moves only inside
\* collect(), by one line at a time.
C18_ResultsArePrefix ==
    /\ [](/\ IsLineStart(log, pos)
          /\ (pc = "collect" \/ CollectReturned) =>
                Decoded(Before(startPos)) \o result = Decoded(Before(pos)))
    /\ [][ /\ pos' # pos => (pc = "collect" /\ pos' = ReadEnd(log, pos))
           /\ (pc = "idle" /\ pc' = "collect") => startPos' = pos ]_vars

\* a second collect() returned the next candidate line of the log
C18_Witness ==
    /\ CollectReturned
    /\ Len(Before(startPos)) >= 1
    /\ Len(result) >= 1
    /\ Len(Before(pos)) = Len(Before(startPos)) + Len(result)

\* this step is a method invocation that raises ValueError
FailsClosed ==
    /\ lastRes' = "ValueError"
    /\ (lastRes # "ValueError" \/ lastOp' # lastOp)

\* C19: an operation that raises ValueError on a closed connection leaves
\* the connection as it was: the count, the text last sent, the log and the
\* read offset, the number of quit requests and the file are unchanged.
C19_FailedOpChangesNothing ==
    [][ FailsClosed =>
            /\ closed
            /\ UNCHANGED <<closed, queries, sent, log, pos, quitSent,
                           fileOpen, fileExists, pc>> ]_vars

\* run_tac raised ValueError on a connection that close() had released
C19_Witness ==
    /\ lastOp = "run_tac"
    /\ lastRes = "ValueError"
    /\ afterClose
    /\ closed
    /\ quitSent = 1
    /\ ~fileExists

\* C20: no temporary log file outlives its connection: once a construction
\* has raised OSError its temporary file is gone, and once close() has run
\* the connection's temporary file is gone.
C20_NoFileOutlives ==
    /\ \A t \in DOMAIN cpc : cpc[t] = "OSError" => ~cfile[t]
    /\ (closed /\ ~InClose) => ~fileExists

====
